---- MODULE Spec2Model ----
(***************************************************************************)
(* A model of src/metronome.py: the Metronome object, its control commands *)
(* (start, stop, set_tempo), which run one at a time on the GUI thread,    *)
(* and the sounddevice delivery callback, which runs on the audio thread   *)
(* while the stream is active.                                             *)
(*                                                                         *)
(* Granularity.  A step of a thread is one statement of the Python source. *)
(* A statement of the shape  self.x = f(self.x)  that calls a function     *)
(* (np.roll) is two steps, the read and the write, because the             *)
(* interpreter may switch threads inside the call.  Statements that touch  *)
(* only fields no other thread accesses are merged with the next shared    *)
(* access of the same thread.  What a command reads from the stream clock  *)
(* is chosen when the command begins.                                      *)
(*                                                                         *)
(* Data.  bar_array and beat_array are np.roll-rotations of the pair that  *)
(* generate_bar_and_beat_array builds for a tempo, so each is represented  *)
(* by the tempo it was built for, its rotation offset and the number of    *)
(* the build; a frame is the pair of BLOCKSIZE-long slices taken at        *)
(* offset 0 of the rotated arrays.  Floating point values are modelled as  *)
(* exact rationals: the drift accumulator as a fraction n/d in lowest       *)
(* terms, bar fractions in units of 1/FracDen, the stream clock in ticks.  *)
(***************************************************************************)
EXTENDS Integers, Sequences, FiniteSets, TLC

\* ------------------------------------------------------------ constants
FS == 16000
BLOCKSIZE == 256
BUFFERSIZE == 40
MAXQUEUESIZE == 50
BEATS_PER_BAR == 4
InitTempo == 170
\* The tempo slider's range (from_, to).
SliderMin == 40
SliderMax == 300

\* ------------------------------------------------------------ bounds
\* Interleaved specifications: delivery callbacks and commands per behaviour.
MaxCallbacks == 2
MaxCmds == 2
\* Run-to-completion specification: callbacks and commands per behaviour.
SeqCallbacks == 1
SeqCmds == 3
\* The last tick of the stream clock in the interleaved and in the
\* run-to-completion specification, and the clock's ticks per second.
MaxClock == 1
SeqClock == 2
TicksPerSec == 1
\* The largest BUFFERSIZE and MAXQUEUESIZE of the configurations tried.
MaxConfig == 2
\* The frames the queue is prefilled with in the interleaved specification.
\* Its queue keeps the program's room above the prefill.
SmallBuffer == 2
\* The sequencer running alone: the frames it produces at a tempo of
\* LongRunTempos, at any other tempo, and the rebuilds per behaviour.
MaxFrames == 24000
ShortFrames == 400
MaxRebuilds == 1
QueueSlack == MAXQUEUESIZE - BUFFERSIZE

\* Tempos the commands are issued with (the slider's range is 40..300).
TempoInputs == {120, 145}
SliderTempos == SliderMin..SliderMax
LongRunTempos == {291}

\* ------------------------------------------------------------ arithmetic
RECURSIVE GCD(_, _)
GCD(a, b) == IF b = 0 THEN a ELSE GCD(b, a % b)

LCM(a, b) == (a \div GCD(a, b)) * b

Abs(a) == IF a < 0 THEN -a ELSE a

Min(a, b) == IF a <= b THEN a ELSE b

\* int(self.fs * 60.0 / tempo)
SamplesPerBeat(T) == (FS * 60) \div T
SamplesPerBar(T) == SamplesPerBeat(T) * BEATS_PER_BAR

\* compute_drift_error_per_frame as the fraction DriftNum(T) / DriftDen(T) in
\* lowest terms: BLOCKSIZE * ((fs*60/T) mod 1) / floor(fs*60/T).
DriftNum(T) ==
    LET n == BLOCKSIZE * ((FS * 60) % T)
        d == T * SamplesPerBeat(T)
    IN  n \div GCD(n, d)
DriftDen(T) ==
    LET n == BLOCKSIZE * ((FS * 60) % T)
        d == T * SamplesPerBeat(T)
    IN  d \div GCD(n, d)

\* Fractions n/d in lowest terms, d > 0.
Frac(n, d) == LET g == GCD(Abs(n), d) IN [n |-> n \div g, d |-> d \div g]
FracAdd(x, y) ==
    LET l == LCM(x.d, y.d)
    IN  Frac(x.n * (l \div x.d) + y.n * (l \div y.d), l)
FracZero == [n |-> 0, d |-> 1]
FracOne == [n |-> 1, d |-> 1]
FracNeg(x) == [n |-> -x.n, d |-> x.d]
\* x >= 0.5
FracGeHalf(x) == 2 * x.n >= x.d

\* The drift of one sample instead of one frame.
DriftErrorPerSample(T) == [n |-> DriftNum(T), d |-> DriftDen(T) * BLOCKSIZE]

\* Lines 157-160.
compute_drift_error_per_frame(T) == [n |-> DriftNum(T), d |-> DriftDen(T)]

\* Bar fractions are whole multiples of 1/FracDen: seconds_per_bar is
\* beats_per_bar / (tempo / 60) = SecBarNum / tempo seconds.
SecBarNum == BEATS_PER_BAR * 60
FracDen == SecBarNum * TicksPerSec

\* ------------------------------------------------------------ arrays, frames
\* The array generate_bar_and_beat_array builds for tempo T in build b.
FreshArray(T, b) == [t |-> T, o |-> 0, b |-> b]

\* np.roll(arr, shift): element i of the result is element (i - shift) mod len.
Roll(arr, shift) == [arr EXCEPT !.o = (arr.o - shift) % SamplesPerBar(arr.t)]

NoArray == [t |-> 0, o |-> 0, b |-> 0]
NoFrame == [bar |-> NoArray, beat |-> NoArray, g |-> 0]

\* (self.bar_array[0:BLOCKSIZE], self.beat_array[0:BLOCKSIZE]), yielded by
\* generator g.
Slice(s, g) == [bar |-> s.bar_array, beat |-> s.beat_array, g |-> g]

\* A slice that ends one sample early.
FrameLenShort(f) == Min(BLOCKSIZE - 1, SamplesPerBar(f.bar.t))

\* len(beat_data), the labels of the frame.
LabelLen(f) == Min(BLOCKSIZE, SamplesPerBar(f.beat.t))

\* len(bar_data)
FrameLen(f) == Min(BLOCKSIZE, SamplesPerBar(f.bar.t))

\* ------------------------------------------------------------ the generator
\* The activation of one sample_generator object: pc is the statement it
\* executes next, fd/roll its locals frame_drift_error and roll_value, tmp the
\* value np.roll has computed and apply_shift has not yet stored, out the
\* frame it yielded last, id the generator object.
NewGenerator(id) ==
    [pc |-> "new", fd |-> FracZero, roll |-> 0, tmp |-> NoArray, out |-> NoFrame, id |-> id]

\* The same object resumed by next() after a yield.
Resumed(id) == [NewGenerator(id) EXCEPT !.pc = "fd"]

\* A decision that waits for a whole sample of drift.
NeedsCorrectionAtOne(acc) == acc.n >= acc.d

\* Lines 233-237: the correction decision on the accumulator read at 233.
NeedsCorrection(acc) == FracGeHalf(acc)

\* One statement of sample_generator on the fields s of the Metronome;
\* pc = "ret" when the generator has yielded g.out.
GenStep(g, s) ==
    CASE g.pc = "new" ->                                     \* line 221
           [g |-> [g EXCEPT !.pc = "y1"],
            m |-> [s EXCEPT !.accumulated_drift_error = FracZero]]
      [] g.pc = "y1" ->                                      \* line 223
           [g |-> [g EXCEPT !.pc = "ret", !.out = Slice(s, g.id)], m |-> s]
      [] g.pc = "fd" ->                                      \* lines 225, 254
           [g |-> [g EXCEPT !.pc = "add",
                            !.fd = compute_drift_error_per_frame(s.tempo)],
            m |-> s]
      [] g.pc = "add" ->                                     \* lines 226, 255
           [g |-> [g EXCEPT !.pc = "chk"],
            m |-> [s EXCEPT !.accumulated_drift_error = FracAdd(@, g.fd)]]
      [] g.pc = "chk" ->                                     \* lines 233, 246
           IF NeedsCorrection(s.accumulated_drift_error)
           THEN [g |-> [g EXCEPT !.pc = "sub"], m |-> s]
           ELSE [g |-> [g EXCEPT !.pc = "rb", !.roll = BLOCKSIZE], m |-> s]
      [] g.pc = "sub" ->                                     \* lines 235-243
           [g |-> [g EXCEPT !.pc = "rb", !.roll = BLOCKSIZE - 1],
            m |-> [s EXCEPT !.accumulated_drift_error = FracAdd(@, FracNeg(FracOne))]]
      [] g.pc = "rb" ->                                      \* line 176, np.roll
           [g |-> [g EXCEPT !.pc = "wb", !.tmp = Roll(s.bar_array, -g.roll)],
            m |-> s]
      [] g.pc = "wb" ->                                      \* line 176, store
           [g |-> [g EXCEPT !.pc = "rl"], m |-> [s EXCEPT !.bar_array = g.tmp]]
      [] g.pc = "rl" ->                                      \* line 177, np.roll
           [g |-> [g EXCEPT !.pc = "wl", !.tmp = Roll(s.beat_array, -g.roll)],
            m |-> s]
      [] g.pc = "wl" ->                                      \* line 177, store
           [g |-> [g EXCEPT !.pc = "y2"], m |-> [s EXCEPT !.beat_array = g.tmp]]
      [] g.pc = "y2" ->                                      \* line 251
           [g |-> [g EXCEPT !.pc = "ret", !.out = Slice(s, g.id)], m |-> s]

\* The statements of the generator up to its next yield.
RECURSIVE GenRun(_, _)
GenRun(g, s) ==
    IF g.pc = "ret" THEN [g |-> g, m |-> s]
    ELSE LET r == GenStep(g, s) IN GenRun(r.g, r.m)

\* next(g) on a generator that is new or suspended at a yield.
GenNext(g, s) == GenRun(IF g.pc = "ret" THEN [g EXCEPT !.pc = "fd"] ELSE g, s)

\* ------------------------------------------------------------ initial state
NoTime == -1

\* len(self.hi), the click loaded at line 110 from a file that is not part
\* of the source: the longest click every tempo of the slider builds with.
\* The arrays of FreshArray are built from two clicks of this length.
ClickLength == SamplesPerBeat(SliderMax)

\* Metronome.__init__ (lines 76-115) with the given constants.
NewMetronome(bufsize, maxq) ==
    [running |-> FALSE,
     click |-> ClickLength,
     BUFFERSIZE |-> bufsize,
     MAXQUEUESIZE |-> maxq,
     tempo |-> InitTempo,
     q |-> [id |-> 0, items |-> <<>>],
     samples_per_beat |-> SamplesPerBeat(InitTempo),
     samples_per_bar |-> SamplesPerBar(InitTempo),
     seconds_per_bar |-> [num |-> SecBarNum, den |-> InitTempo],
     tempo_start_bar_fraction |-> 0,
     bar_fraction_at_tempo_change |-> 0,
     tempo_start_time |-> NoTime,
     accumulated_drift_error |-> FracZero,
     bar_array |-> FreshArray(InitTempo, 0),
     beat_array |-> FreshArray(InitTempo, 0),
     gen |-> 0]

\* The control thread between commands, and the locals of a command: the
\* prefill loop's counter and temp_gen, the value np.roll returned to
\* apply_shift, new_bar_index, the tempo before the command, and the value
\* the command's last read of stream.time returns.
CtlIdle ==
    [pc |-> "idle", cmd |-> "none", i |-> 0, g |-> NewGenerator(0),
     tmp |-> NoArray, new_bar_index |-> 0, old_tempo |-> 0, now |-> 0]

\* The audio thread between callbacks, and the locals of a callback.
AudWait == [pc |-> "wait", bar_data |-> NoFrame, g |-> NewGenerator(0)]

NoMap == [fraction |-> 0, elapsed |-> 0, old_tempo |-> 0, new_tempo |-> 0, index |-> 0]
NoReturn ==
    [cmd |-> "none", qlen |-> 0, popped |-> FALSE, running |-> FALSE, active |-> FALSE]
NoCallback == [qpop |-> 0, filling |-> FALSE, gen |-> 0, qpush |-> 0, done |-> FALSE]

\* Bookkeeping of the run, read by the properties only: the numbers of
\* callbacks and commands, of the frames a sequencer running alone has
\* yielded and the corrections among them (and which frame was the last
\* corrected one), of queues and generators created
\* and of array builds, the build start() last made and the commands up to
\* that start(), the frames written to the output, the inputs of the last
\* phase mapping, what the last callback touched, the epochs callbacks
\* ended, the frames dropped, the exception the last command raised, the
\* state as the last command left it (the queue's length, whether a callback
\* had popped and not yet pushed, the running flag, the stream), whether the
\* last set_tempo repeated the set_tempo just before it, the argument of the
\* last set_tempo, the last event.
Hist0 ==
    [cb |-> 0, cmds |-> 0, nStart |-> 0, nSet |-> 0, frames |-> 0, corrections |-> 0,
     correctedAt |-> 0,
     ids |-> 0, builds |-> 0, epochBuild |-> 0, epochCmds |-> 0,
     delivered |-> <<>>, map |-> NoMap, lastcb |-> NoCallback,
     aborts |-> 0, dropped |-> 0, raised |-> "none", ret |-> NoReturn,
     repeat |-> FALSE, arg |-> 0, last |-> "none"]

VARIABLES m, stream, clock, ctl, aud, hist, lim

vars == <<m, stream, clock, ctl, aud, hist, lim>>

\* The state the statements below transform.
State ==
    [m |-> m, stream |-> stream, clock |-> clock, ctl |-> ctl, aud |-> aud,
     hist |-> hist]

Becomes(st) ==
    /\ m' = st.m
    /\ stream' = st.stream
    /\ clock' = st.clock
    /\ ctl' = st.ctl
    /\ aud' = st.aud
    /\ hist' = st.hist
    /\ UNCHANGED lim

InitWith(bufsize, maxq, cmds, cb, ticks) ==
    /\ m = NewMetronome(bufsize, maxq)
    /\ stream = [active |-> FALSE]
    /\ clock = 0
    /\ ctl = CtlIdle
    /\ aud = AudWait
    /\ hist = Hist0
    /\ lim = [cmds |-> cmds, cb |-> cb, clock |-> ticks]

\* The interleaved specification: a short prefill, the program's room above it.
Init == InitWith(SmallBuffer, SmallBuffer + QueueSlack, MaxCmds, MaxCallbacks, MaxClock)

\* The run-to-completion specification: the program's constants.
InitSeq == InitWith(BUFFERSIZE, MAXQUEUESIZE, SeqCmds, SeqCallbacks, SeqClock)

\* The interleaved specification over the configurations.
Configs == (1..MaxConfig) \X (1..MaxConfig)
InitCfg == \E c \in Configs : InitWith(c[1], c[2], MaxCmds, MaxCallbacks, MaxClock)

\* ------------------------------------------------------------ control thread
\* The stream clock (stream.time) is monotonic: a read returns a tick that is
\* not before the last one read.
ClockReads(from) == from..lim.clock

\* A start() that never returns at once.
StartAlwaysRuns(s) == FALSE

\* Lines 413-414: start() returns at once when already running.
StartReturnsEarly(s) == s.running

\* start(), lines 411-421; now is what line 435 will read from the clock.
StartCmd(st, now) ==
    IF StartReturnsEarly(st.m)
    THEN [st EXCEPT !.hist.cmds = @ + 1, !.hist.nStart = @ + 1,
                    !.hist.last = "start_noop"]
    ELSE [st EXCEPT !.m.running = TRUE,
                    !.m.tempo_start_bar_fraction = 0,
                    !.ctl = [CtlIdle EXCEPT !.pc = "gen_bar", !.cmd = "start",
                                            !.now = now],
                    !.hist.cmds = @ + 1, !.hist.nStart = @ + 1,
                    !.hist.epochCmds = st.hist.cmds + 1,
                    !.hist.raised = "none", !.hist.ret = NoReturn,
                    !.hist.last = "start_begun"]

\* Lines 279-280: the fraction of a bar played in time_at_tempo ticks, with
\* the seconds_per_bar stored in s.
BarFractionAtTempoChange(s, time_at_tempo) ==
    (time_at_tempo * s.seconds_per_bar.den) % (s.seconds_per_bar.num * TicksPerSec)

\* set_tempo(tempo), lines 273-285; now1 is what line 275 reads from the
\* clock and now2 what line 305 will read.  With running set and no
\* tempo_start_time (a start() that raised before line 435), line 276 raises
\* AttributeError.
SetTempoCmd(st, tempo, now1, now2) ==
    IF st.m.running /\ st.m.tempo_start_time = NoTime
    THEN [st EXCEPT !.clock = now1,
                    !.hist.cmds = @ + 1, !.hist.nSet = @ + 1,
                    !.hist.arg = tempo,
                    !.hist.raised = "AttributeError",
                    !.hist.last = "set_tempo_raised"]
    ELSE LET time_at_tempo == now1 - st.m.tempo_start_time
             begun == [st EXCEPT
                         !.m.tempo = tempo,
                         !.ctl = [CtlIdle EXCEPT !.pc = "reset", !.cmd = "set_tempo",
                                                 !.old_tempo = st.m.tempo,
                                                 !.now = now2],
                         !.hist.cmds = @ + 1, !.hist.nSet = @ + 1,
                         !.hist.map = [NoMap EXCEPT !.index = -1],
                         !.hist.arg = tempo,
                         !.hist.repeat = (st.hist.last = "set_tempo"
                                          /\ st.m.tempo = tempo),
                         !.hist.raised = "none", !.hist.ret = NoReturn,
                         !.hist.last = "set_tempo_begun"]
         IN  IF st.m.running
             THEN [begun EXCEPT
                     !.clock = now1,
                     !.m.bar_fraction_at_tempo_change =
                         BarFractionAtTempoChange(st.m, time_at_tempo),
                     !.hist.map = [fraction |-> st.m.tempo_start_bar_fraction,
                                   elapsed |-> time_at_tempo,
                                   old_tempo |-> st.m.tempo,
                                   new_tempo |-> tempo,
                                   index |-> -1]]
             ELSE begun

\* adjust_tempo(tempo_adjustment), lines 327-334: set_tempo with the slider's
\* limit when the adjusted tempo is beyond it, with the adjusted tempo
\* otherwise.
AdjustedTempo(s, tempo_adjustment) ==
    IF s.tempo + tempo_adjustment < SliderMin THEN SliderMin
    ELSE IF s.tempo + tempo_adjustment > SliderMax THEN SliderMax
    ELSE s.tempo + tempo_adjustment

AdjustTempoCmd(st, tempo_adjustment, now1, now2) ==
    SetTempoCmd(st, AdjustedTempo(st.m, tempo_adjustment), now1, now2)

\* stop(), lines 439-443.
StopCmd(st) ==
    IF ~st.m.running
    THEN [st EXCEPT !.hist.cmds = @ + 1, !.hist.last = "stop_noop"]
    ELSE [st EXCEPT !.m.running = FALSE,
                    !.ctl = [CtlIdle EXCEPT !.pc = "stop_abort", !.cmd = "stop"],
                    !.hist.cmds = @ + 1, !.hist.last = "stop_begun"]

\* The queue at the moment command cmd returns or raises.
Leaves(st, cmd) ==
    [cmd |-> cmd, qlen |-> Len(st.m.q.items),
     popped |-> st.aud.pc \in {"a_gen", "a_next", "a_put"},
     running |-> st.m.running, active |-> st.stream.active]

\* reset_counters, line 168 (called at 288 and 425).
ResetCounters(st) ==
    [st EXCEPT !.m.accumulated_drift_error = FracZero,
               !.ctl.pc = IF st.ctl.cmd = "start" THEN "newgen" ELSE "gen_bar"]

\* A rebuild that leaves bar_array as it is.
GenerateBarKeepsArray(st) ==
    [st EXCEPT !.m.samples_per_beat = SamplesPerBeat(st.m.tempo),
               !.m.samples_per_bar = SamplesPerBar(st.m.tempo),
               !.ctl.pc = "gen_beat",
               !.hist.builds = @ + 1,
               !.hist.epochBuild = IF st.ctl.cmd = "start"
                                   THEN st.hist.builds + 1 ELSE @]

\* generate_bar_and_beat_array, lines 138-148: the lengths and bar_array.
\* With a beat shorter than the click, np.zeros raises ValueError at line
\* 140, out of the command, after lines 138-139 have stored the lengths.
GenerateBar(st) ==
    IF SamplesPerBeat(st.m.tempo) < st.m.click
    THEN [st EXCEPT !.m.samples_per_beat = SamplesPerBeat(st.m.tempo),
                    !.m.samples_per_bar = SamplesPerBar(st.m.tempo),
                    !.ctl = CtlIdle,
                    !.hist.raised = "ValueError",
                    !.hist.ret = Leaves(st, IF st.ctl.cmd = "start"
                                            THEN "start_raised"
                                            ELSE "set_tempo_raised"),
                    !.hist.last = IF st.ctl.cmd = "start" THEN "start_raised"
                                  ELSE "set_tempo_raised"]
    ELSE
    [st EXCEPT !.m.samples_per_beat = SamplesPerBeat(st.m.tempo),
               !.m.samples_per_bar = SamplesPerBar(st.m.tempo),
               !.m.bar_array = FreshArray(st.m.tempo, st.hist.builds + 1),
               !.ctl.pc = "gen_beat",
               !.hist.builds = @ + 1,
               !.hist.epochBuild = IF st.ctl.cmd = "start"
                                   THEN st.hist.builds + 1 ELSE @]

\* A rebuild that leaves beat_array as it is.
GenerateBeatKeepsArray(st) ==
    [st EXCEPT !.ctl.pc = IF st.ctl.cmd = "start" THEN "reset"
                          ELSE IF st.m.running THEN "map" ELSE "newq"]

\* generate_bar_and_beat_array, line 149: beat_array.
GenerateBeat(st) ==
    [st EXCEPT !.m.beat_array = FreshArray(st.m.tempo, st.hist.builds),
               !.ctl.pc = IF st.ctl.cmd = "start" THEN "reset"
                          ELSE IF st.m.running THEN "map" ELSE "newq"]

\* Line 426 of start(): self.gen = self.sample_generator().
StartNewGenerator(st) ==
    [st EXCEPT !.m.gen = st.hist.ids + 1, !.ctl.pc = "newq", !.hist.ids = @ + 1]

\* A new bar fraction that is not reduced to the bar.
NewBarFractionUnwrapped(s) ==
    s.tempo_start_bar_fraction + s.bar_fraction_at_tempo_change

\* map_current_position_to_new_tempo_index, lines 201-208: the new bar
\* fraction and the index it has in a bar of s.samples_per_bar samples.
NewBarFraction(s) ==
    (s.tempo_start_bar_fraction + s.bar_fraction_at_tempo_change) % FracDen
BarIndexAtNewTempo(s) == (NewBarFraction(s) * s.samples_per_bar) \div FracDen

\* Lines 295-299: the mapping, and np.roll of bar_array in apply_shift.
MapPosition(st) ==
    LET index == BarIndexAtNewTempo(st.m)
    IN  [st EXCEPT !.m.tempo_start_bar_fraction = NewBarFraction(st.m),
                   !.ctl.pc = "shift_wb",
                   !.ctl.new_bar_index = index,
                   !.ctl.tmp = Roll(st.m.bar_array, -index),
                   !.hist.map.index = index]

\* apply_shift(-new_bar_index): line 176's store, line 177's np.roll, its store.
ShiftStoreBar(st) ==
    [st EXCEPT !.m.bar_array = st.ctl.tmp, !.ctl.pc = "shift_rl"]

ShiftRollBeat(st) ==
    [st EXCEPT !.ctl.tmp = Roll(st.m.beat_array, -st.ctl.new_bar_index),
               !.ctl.pc = "shift_wl"]

ShiftStoreBeat(st) ==
    [st EXCEPT !.m.beat_array = st.ctl.tmp, !.ctl.pc = "newq"]

\* create_and_fill_new_queue, lines 344 and 349: the empty queue becomes
\* self.q at once; temp_gen is a new generator.
NewQueue(st) ==
    [st EXCEPT !.m.q = [id |-> st.hist.ids + 1, items |-> <<>>],
               !.ctl.pc = IF st.m.BUFFERSIZE > 0 THEN "fill_next" ELSE "setgen",
               !.ctl.i = 0,
               !.ctl.g = NewGenerator(st.hist.ids + 1),
               !.hist.ids = @ + 1]

\* Line 353: data = next(temp_gen), one statement of the generator.
FillNext(st) ==
    LET r == GenStep(st.ctl.g, st.m)
    IN  [st EXCEPT !.m = r.m,
                   !.ctl.g = r.g,
                   !.ctl.pc = IF r.g.pc = "ret" THEN "fill_put" ELSE @]

\* A queue that never reports full.
QueueNeverFull(s) == FALSE

\* queue.Queue(maxsize): a put finds the queue full; a maxsize that is not
\* positive makes the queue unbounded.
QueueFull(s) == s.MAXQUEUESIZE > 0 /\ Len(s.q.items) >= s.MAXQUEUESIZE

\* A prefill loop that stops one frame short.
FillStopsShort(s, i) == i < s.BUFFERSIZE - 1

\* The prefill loop of line 352 goes on after i frames.
FillContinues(s, i) == i < s.BUFFERSIZE

\* Lines 354-356: put_nowait(data) raises queue.Full out of the command when
\* the queue is full; otherwise the loop goes on or ends.
FillPut(st) ==
    IF QueueFull(st.m)
    THEN [st EXCEPT !.ctl = CtlIdle,
                    !.hist.raised = "Full",
                    !.hist.ret = Leaves(st, IF st.ctl.cmd = "start" THEN "start_raised"
                                            ELSE "set_tempo_raised"),
                    !.hist.last = IF st.ctl.cmd = "start" THEN "start_raised"
                                  ELSE "set_tempo_raised"]
    ELSE [st EXCEPT !.m.q.items = Append(@, st.ctl.g.out),
                    !.ctl.i = @ + 1,
                    !.ctl.g.pc = "fd",
                    !.ctl.pc = IF FillContinues(st.m, st.ctl.i + 1)
                               THEN "fill_next" ELSE "setgen"]

\* Line 360: self.gen = temp_gen.
SetGen(st) ==
    [st EXCEPT !.m.gen = st.ctl.g.id,
               !.ctl.pc = IF st.ctl.cmd = "start" THEN "st_stream" ELSE "set_time"]

\* A bar duration that stays the one of the tempo before.
SecondsPerBarKept(s) == s.seconds_per_bar

\* get_seconds_per_bar, line 164.
get_seconds_per_bar(s) == [num |-> SecBarNum, den |-> s.tempo]

\* Lines 305-307 of set_tempo: the segment's start time and seconds_per_bar.
SetTempoEnd(st) ==
    [st EXCEPT !.clock = st.ctl.now,
               !.m.tempo_start_time = st.ctl.now,
               !.m.seconds_per_bar = get_seconds_per_bar(st.m),
               !.ctl = CtlIdle,
               !.hist.ret = Leaves(st, "set_tempo"),
               !.hist.last = "set_tempo"]

\* Line 433 of start(): self.stream.start().
StreamStart(st) ==
    [st EXCEPT !.stream.active = TRUE, !.ctl.pc = "st_time"]

\* Line 435 of start().
StartEnd(st) ==
    [st EXCEPT !.clock = st.ctl.now,
               !.m.tempo_start_time = st.ctl.now,
               !.ctl = CtlIdle,
               !.hist.ret = Leaves(st, "start"),
               !.hist.last = "start"]

\* An abort that leaves the stream active.
StreamAbortIgnored(st) ==
    [st EXCEPT !.ctl = CtlIdle, !.hist.last = "stop"]

\* Line 444: self.stream.abort(); the callback is not invoked again before
\* the next stream.start().
StreamAbort(st) ==
    [st EXCEPT !.stream.active = FALSE, !.ctl = CtlIdle, !.hist.last = "stop"]

\* The statement the command in progress executes next.
CtlStep(st) ==
    CASE st.ctl.pc = "reset" -> ResetCounters(st)
      [] st.ctl.pc = "gen_bar" -> GenerateBar(st)
      [] st.ctl.pc = "gen_beat" -> GenerateBeat(st)
      [] st.ctl.pc = "newgen" -> StartNewGenerator(st)
      [] st.ctl.pc = "map" -> MapPosition(st)
      [] st.ctl.pc = "shift_wb" -> ShiftStoreBar(st)
      [] st.ctl.pc = "shift_rl" -> ShiftRollBeat(st)
      [] st.ctl.pc = "shift_wl" -> ShiftStoreBeat(st)
      [] st.ctl.pc = "newq" -> NewQueue(st)
      [] st.ctl.pc = "fill_next" -> FillNext(st)
      [] st.ctl.pc = "fill_put" -> FillPut(st)
      [] st.ctl.pc = "setgen" -> SetGen(st)
      [] st.ctl.pc = "set_time" -> SetTempoEnd(st)
      [] st.ctl.pc = "st_stream" -> StreamStart(st)
      [] st.ctl.pc = "st_time" -> StartEnd(st)
      [] st.ctl.pc = "stop_abort" -> StreamAbort(st)

\* stream.abort() returns when no callback is in flight.
CtlCanStep(st) ==
    /\ st.ctl.pc # "idle"
    /\ st.ctl.pc = "stop_abort" => st.aud.pc = "wait"

\* ------------------------------------------------------------ audio thread
\* A callback that reports and returns without raising.
EndEpochKeepsStream(st, how) ==
    [st EXCEPT !.hist.cb = @ + 1, !.hist.aborts = @ + 1, !.hist.last = how]

\* sd.CallbackAbort and sd.CallbackStop end the stream epoch: the stream is no
\* longer active and the callback is not invoked again.  self.running is not
\* touched.
EndEpoch(st, how) ==
    [st EXCEPT !.stream.active = FALSE,
               !.hist.cb = @ + 1, !.hist.aborts = @ + 1, !.hist.last = how]

\* The control thread is inside the prefill loop of lines 352-356, so self.q
\* is the queue line 344 made and holds fewer than BUFFERSIZE frames.
Filling(st) == st.ctl.pc \in {"fill_next", "fill_put"}

\* What a callback that reaches line 386 touches first.
Popping(st) == [NoCallback EXCEPT !.qpop = st.m.q.id, !.filling = Filling(st)]

\* callback, lines 376-393: the status check, the pop from self.q and the
\* check of the popped frame's length.
CallbackEnter(st, underflow) ==
    IF underflow
    THEN EndEpoch([st EXCEPT !.hist.lastcb = NoCallback], "abort_underflow")
    ELSE IF st.m.q.items = <<>>
    THEN EndEpoch([st EXCEPT !.hist.lastcb = Popping(st)], "abort_empty")
    ELSE LET bar_data == Head(st.m.q.items)
             popped == [st EXCEPT !.m.q.items = Tail(@),
                                  !.hist.lastcb = Popping(st)]
         IN  IF FrameLen(bar_data) < BLOCKSIZE
             THEN EndEpoch([popped EXCEPT !.aud.bar_data = bar_data], "stop_short")
             ELSE [popped EXCEPT
                     !.aud = [AudWait EXCEPT !.pc = "a_gen", !.bar_data = bar_data],
                     !.hist.cb = @ + 1, !.hist.last = "callback"]

\* Line 397: next(self.gen) resumes the generator that self.gen names now.
CallbackGen(st) ==
    [st EXCEPT !.aud.pc = "a_next", !.aud.g = Resumed(st.m.gen),
               !.hist.lastcb.gen = st.m.gen]

\* Line 397: one statement of the generator.
CallbackNext(st) ==
    LET r == GenStep(st.aud.g, st.m)
    IN  [st EXCEPT !.m = r.m,
                   !.aud.g = r.g,
                   !.aud.pc = IF r.g.pc = "ret" THEN "a_put" ELSE @]

\* Lines 398 and 406-407: self.q.put(data, timeout).  Nothing else pops, so a
\* full queue stays full until the timeout; queue.Full is then caught and
\* printed, and the callback returns without writing outdata.
CallbackPut(st) ==
    IF QueueFull(st.m)
    THEN [st EXCEPT !.aud = AudWait,
                    !.hist.dropped = @ + 1, !.hist.last = "overrun"]
    ELSE [st EXCEPT !.m.q.items = Append(@, st.aud.g.out),
                    !.aud.pc = "a_out",
                    !.hist.lastcb.qpush = st.m.q.id,
                    !.hist.lastcb.done = TRUE]

\* Line 401: outdata[:] = bar_data.
CallbackOut(st) ==
    [st EXCEPT !.hist.delivered =
                   Append(@, [f |-> st.aud.bar_data, sets |-> st.hist.nSet,
                              starts |-> st.hist.nStart,
                              build |-> st.hist.epochBuild,
                              quiet |-> st.hist.cmds = st.hist.epochCmds]),
               !.hist.last = "delivered",
               !.aud = AudWait]

\* The statement the callback in progress executes next.
AudStep(st) ==
    CASE st.aud.pc = "a_gen" -> CallbackGen(st)
      [] st.aud.pc = "a_next" -> CallbackNext(st)
      [] st.aud.pc = "a_put" -> CallbackPut(st)
      [] st.aud.pc = "a_out" -> CallbackOut(st)

\* ------------------------------------------------------------ specification
CanCommand == ctl.pc = "idle" /\ hist.cmds < lim.cmds
CanCallback == aud.pc = "wait" /\ stream.active /\ hist.cb < lim.cb

Start ==
    /\ CanCommand
    /\ \E now \in ClockReads(clock) : Becomes(StartCmd(State, now))

Stop ==
    /\ CanCommand
    /\ Becomes(StopCmd(State))

SetTempo(tempo) ==
    /\ CanCommand
    /\ \E now1 \in ClockReads(clock) : \E now2 \in ClockReads(now1) :
          /\ ~m.running => now1 = clock
          /\ Becomes(SetTempoCmd(State, tempo, now1, now2))

ControlStep ==
    /\ CtlCanStep(State)
    /\ Becomes(CtlStep(State))

Callback(underflow) ==
    /\ CanCallback
    /\ Becomes(CallbackEnter(State, underflow))

AudioStep ==
    /\ aud.pc # "wait"
    /\ Becomes(AudStep(State))

\* Any interleaving of the statements of the two threads.
Next ==
    \/ Start
    \/ Stop
    \/ \E tempo \in TempoInputs : SetTempo(tempo)
    \/ ControlStep
    \/ \E underflow \in BOOLEAN : Callback(underflow)
    \/ AudioStep

Spec == Init /\ [][Next]_vars

SpecCfg == InitCfg /\ [][Next]_vars

\* ------------------------------------------------------------ run to completion
\* A command run to its return with no callback in between, and a callback
\* run to its return with no command in between.

\* The statements of a command never number more than this: twelve for each
\* frame of the prefill and sixteen around the loop.
CommandSteps(s) == 16 + 12 * s.BUFFERSIZE

\* n statements of the command in progress, or all it has left if fewer.
RECURSIVE CtlSteps(_, _)
CtlSteps(st, n) ==
    IF n = 0 \/ st.ctl.pc = "idle" THEN st
    ELSE IF n = 1 THEN CtlStep(st)
    ELSE LET half == CtlSteps(st, n \div 2)
         IN  CtlSteps(half, n - (n \div 2))

RunCommand(st) == CtlSteps(st, CommandSteps(st.m))

RECURSIVE RunCallback(_)
RunCallback(st) == IF st.aud.pc = "wait" THEN st ELSE RunCallback(AudStep(st))

Quiet == ctl.pc = "idle" /\ aud.pc = "wait"

SeqStart ==
    /\ Quiet /\ CanCommand
    /\ \E now \in ClockReads(clock) : Becomes(RunCommand(StartCmd(State, now)))

SeqStop ==
    /\ Quiet /\ CanCommand
    /\ Becomes(RunCommand(StopCmd(State)))

SeqSetTempo(tempo) ==
    /\ Quiet /\ CanCommand
    /\ \E now1 \in ClockReads(clock) : \E now2 \in ClockReads(now1) :
          /\ ~m.running => now1 = clock
          /\ Becomes(RunCommand(SetTempoCmd(State, tempo, now1, now2)))

SeqCallback(underflow) ==
    /\ Quiet /\ CanCallback
    /\ Becomes(RunCallback(CallbackEnter(State, underflow)))

NextSeq ==
    \/ SeqStart
    \/ SeqStop
    \/ \E tempo \in TempoInputs : SeqSetTempo(tempo)
    \/ \E underflow \in BOOLEAN : SeqCallback(underflow)

SpecSeq == InitSeq /\ [][NextSeq]_vars

\* Run to completion with tempos inside and outside the slider's range, the
\* adjustments of the buttons and the arrow keys (lines 501-504, 521-524),
\* and clicks of two lengths.
RangeTempos == {SliderMin - 1, SliderMin, SliderMax, SliderMax + 1, 400, 401}
Adjustments == {-10, -5, -1, 1, 5, 10}
ClickLengths == {SamplesPerBeat(400), ClickLength}

InitRange ==
    /\ \E c \in ClickLengths :
          m = [NewMetronome(SmallBuffer, SmallBuffer + QueueSlack) EXCEPT !.click = c]
    /\ stream = [active |-> FALSE]
    /\ clock = 0
    /\ ctl = CtlIdle
    /\ aud = AudWait
    /\ hist = Hist0
    /\ lim = [cmds |-> SeqCmds, cb |-> SeqCallbacks, clock |-> MaxClock]

SeqAdjustTempo(tempo_adjustment) ==
    /\ Quiet /\ CanCommand
    /\ \E now1 \in ClockReads(clock) : \E now2 \in ClockReads(now1) :
          /\ ~m.running => now1 = clock
          /\ Becomes(RunCommand(AdjustTempoCmd(State, tempo_adjustment, now1, now2)))

NextRange ==
    \/ SeqStart
    \/ SeqStop
    \/ \E tempo \in RangeTempos : SeqSetTempo(tempo)
    \/ \E tempo_adjustment \in Adjustments : SeqAdjustTempo(tempo_adjustment)
    \/ \E underflow \in BOOLEAN : SeqCallback(underflow)

SpecRange == InitRange /\ [][NextRange]_vars


\* ------------------------------------------------------------ properties
\* C1: while Running, under every interleaving of set_tempo with the delivery
\* callback, the callback never pops from a replacement queue that the
\* prefill loop has not yet filled with BUFFERSIZE frames, and so never finds
\* the queue empty because of a tempo change.
C1_CallbackPopsPrefilledQueue == ~hist.lastcb.filling


\* The set_tempo or start last called has returned and playback is on.
Settled == ctl.pc = "idle" /\ m.running /\ stream.active /\ hist.raised = "none"

\* C2: the callback sees one bundle.  A callback that ran to its push popped
\* from, advanced and refilled the queue and the sequencer of one bundle; and
\* once the command has returned, every frame in the active queue was produced
\* by the sequencer of that queue from the waveform of the current tempo.
C2_CallbackSeesOneBundle ==
    /\ hist.lastcb.done =>
          /\ hist.lastcb.qpop = hist.lastcb.gen
          /\ hist.lastcb.gen = hist.lastcb.qpush
    /\ Settled =>
          \A i \in 1..Len(m.q.items) :
              /\ m.q.items[i].g = m.q.id
              /\ m.q.items[i].bar.t = m.tempo
              /\ m.q.items[i].beat.t = m.tempo

\* Two frames of one tempo segment: cut from the arrays of one build, in one
\* stream epoch.
SameSegment(d1, d2) == d1.f.bar.b = d2.f.bar.b /\ d1.starts = d2.starts

\* The distance from the window of frame f1 to that of f2 in the bar.
WindowAdvance(f1, f2) == (f2.bar.o - f1.bar.o) % SamplesPerBar(f1.bar.t)

\* C3: frames are delivered in production order with no gap or repeat: within
\* one tempo segment each delivered frame's window begins BLOCKSIZE samples,
\* or BLOCKSIZE - 1 on a drift correction, after the window of the frame
\* delivered before it, modulo samples_per_bar, in the bar and in the beat array.
C3_DeliveredInProductionOrder ==
    \A i \in 1..(Len(hist.delivered) - 1) :
        LET d1 == hist.delivered[i]
            d2 == hist.delivered[i + 1]
        IN  SameSegment(d1, d2) =>
               /\ WindowAdvance(d1.f, d2.f) \in {BLOCKSIZE, BLOCKSIZE - 1}
               /\ d2.f.beat.o = d2.f.bar.o
               /\ d2.f.beat.b = d2.f.bar.b


\* ------------------------------------------------------------ the sequencer alone
\* The state after the rebuild for tempo T that set_tempo makes when not
\* running (lines 285-292) and a new generator (line 349), with no frame
\* produced yet.
Rebuilt(st, T) ==
    LET begun == [st EXCEPT !.m.tempo = T,
                            !.ctl = [CtlIdle EXCEPT !.pc = "reset", !.cmd = "set_tempo"]]
        built == GenerateBeat(GenerateBar(ResetCounters(begun)))
    IN  [built EXCEPT !.ctl = CtlIdle,
                      !.m.gen = st.hist.ids + 1,
                      !.aud.g = NewGenerator(st.hist.ids + 1),
                      !.hist.ids = @ + 1,
                      !.hist.frames = 0,
                      !.hist.corrections = 0,
                      !.hist.correctedAt = 0]

FramesAt(T) == IF T \in LongRunTempos THEN MaxFrames ELSE ShortFrames

InitDrift ==
    \E T \in SliderTempos :
        LET st == Rebuilt([m |-> NewMetronome(BUFFERSIZE, MAXQUEUESIZE),
                           stream |-> [active |-> FALSE], clock |-> 0,
                           ctl |-> CtlIdle, aud |-> AudWait, hist |-> Hist0], T)
        IN  /\ m = st.m
            /\ stream = st.stream
            /\ clock = st.clock
            /\ ctl = st.ctl
            /\ aud = st.aud
            /\ hist = st.hist
            /\ lim = [cmds |-> MaxRebuilds, cb |-> 0, clock |-> 0]

\* One next() on the sequencer.
DriftNext ==
    /\ hist.frames < FramesAt(m.tempo)
    /\ LET r == GenNext(aud.g, m)
       IN  Becomes([State EXCEPT
                      !.m = r.m,
                      !.aud.g = r.g,
                      !.hist.frames = @ + 1,
                      !.hist.corrections =
                          IF r.g.roll = BLOCKSIZE - 1 THEN @ + 1 ELSE @,
                      !.hist.correctedAt =
                          IF r.g.roll = BLOCKSIZE - 1 THEN hist.frames + 1 ELSE @])

\* A rebuild for another tempo.
DriftRebuild(T) ==
    /\ hist.cmds < lim.cmds
    /\ Becomes(Rebuilt([State EXCEPT !.hist.cmds = @ + 1], T))

NextDrift ==
    \/ DriftNext
    \/ \E T \in TempoInputs : DriftRebuild(T)

SpecDrift == InitDrift /\ [][NextDrift]_vars

\* C4: after any number of next() calls, at every tempo of the slider and
\* after any rebuilds, the drift accumulator lies in (-0.5, 0.5] after each
\* correction decision.
C4_AccumulatorInRange ==
    LET acc == m.accumulated_drift_error
    IN  -acc.d < 2 * acc.n /\ 2 * acc.n <= acc.d

\* The decision of the last next() was a correction.
C4_Corrected ==
    /\ hist.corrections > 0
    /\ aud.g.roll = BLOCKSIZE - 1
    /\ m.accumulated_drift_error.n < 0

\* The frame yielded last is the hist.frames-th: it is output at samples
\* BLOCKSIZE * (hist.frames - 1) onwards and its window begins at sample
\* FrameSource of the endlessly repeated bar.
FrameSource == BLOCKSIZE * (hist.frames - 1) - hist.corrections

\* The first beat onset at or after the window's beginning, and whether the
\* window holds it.
OnsetNumber == (FrameSource + m.samples_per_beat - 1) \div m.samples_per_beat
OnsetEmitted ==
    /\ hist.frames > 0
    /\ OnsetNumber * m.samples_per_beat < FrameSource + BLOCKSIZE

\* The onset's output position minus its ideal position k * fs * 60 / tempo,
\* times tempo: the onset is output at k * samples_per_beat + corrections.
OnsetErrorTimesTempo ==
    m.tempo * hist.corrections - OnsetNumber * ((FS * 60) % m.tempo)

\* C5: with no tempo change, for every run length, the k-th emitted beat
\* onset is output less than one sample from k * (fs * 60 / tempo).
C5_OnsetWithinOneSample ==
    OnsetEmitted => Abs(OnsetErrorTimesTempo) < m.tempo


\* x times the whole number k.
FracTimes(x, k) == Frac(x.n * k, x.d)

\* The corrections among the frames of a queue filled from the downbeat: each
\* shortens the advance of the window by one sample.
CorrectionsIn(items) == BLOCKSIZE * (Len(items) - 1) - items[Len(items)].bar.o

\* The frame at the downbeat of the bar start() built.
Downbeat(f) ==
    /\ f.bar = FreshArray(m.tempo, hist.epochBuild)
    /\ f.beat = FreshArray(m.tempo, hist.epochBuild)

\* start() from Stopped has just returned.
Started == hist.last = "start"

CombinedFraction(mp) ==
    (mp.fraction + ((mp.elapsed * mp.old_tempo) % FracDen)) % FracDen

\* set_tempo while Running has returned.
Remapped == hist.last = "set_tempo" /\ hist.map.index >= 0 /\ hist.map.new_tempo = m.tempo

\* C7: on set_tempo while Running the resume index is
\* floor(combined fraction * samples_per_bar(new tempo)), with the elapsed
\* bars measured by the old tempo's bar duration; it lies in
\* 0..samples_per_bar(new tempo) - 1 and is within one sample of the fraction.
C7_ResumeIndex ==
    Remapped =>
        LET mp == hist.map
            spbar == SamplesPerBar(mp.new_tempo)
            c == CombinedFraction(mp)
        IN  /\ mp.index = (c * spbar) \div FracDen
            /\ 0 <= mp.index /\ mp.index < spbar
            /\ 0 <= c * spbar - mp.index * FracDen
            /\ c * spbar - mp.index * FracDen < FracDen
            /\ m.tempo_start_bar_fraction = c

\* A tempo change later in the bar: a set_tempo while Running after time has
\* passed in a segment that began inside the bar.
C7_RemappedInsideBar ==
    /\ Remapped
    /\ hist.map.fraction > 0
    /\ hist.map.elapsed > 0
    /\ hist.map.index > 0


C9_QueueWithinCapacity == Len(m.q.items) <= m.MAXQUEUESIZE

\* A put has found the queue at its capacity.
C9_PutOnFullQueue ==
    /\ Len(m.q.items) = m.MAXQUEUESIZE
    /\ hist.raised = "Full" \/ hist.dropped > 0

\* C10: start() while Running is a no-op: the running flag, tempo, arrays,
\* accumulator, bar fraction, segment start time, sequencer and queue are
\* unchanged, and no queue or array is built.
C10_StartWhileRunningIsNoOp ==
    [][(m.running /\ hist'.nStart = hist.nStart + 1) =>
          /\ m' = m
          /\ stream' = stream
          /\ clock' = clock
          /\ ctl' = ctl
          /\ aud' = aud
          /\ hist'.ids = hist.ids
          /\ hist'.builds = hist.builds]_vars

\* start() has been called while Running, with frames queued.
C10_StartedWhileRunning ==
    /\ hist.last = "start_noop"
    /\ m.running
    /\ hist.nStart >= 2
    /\ m.q.items # <<>>


\* C11: stop() while not Running changes nothing; stop() while Running only
\* clears the running flag and halts delivery, leaving the queue, the
\* sequencer, the accumulator, the tempo and the bar fraction as they were;
\* and no callback runs after stop() has returned until the next start().
C11_StopOnlyHaltsDelivery ==
    [][/\ (hist'.cmds = hist.cmds + 1 /\ hist'.last = "stop_noop") =>
              /\ ~m.running
              /\ m' = m /\ stream' = stream /\ clock' = clock /\ aud' = aud
       /\ (hist'.cmds = hist.cmds + 1 /\ hist'.last = "stop") =>
              /\ m.running
              /\ m' = [m EXCEPT !.running = FALSE]
              /\ ~stream'.active
              /\ clock' = clock /\ aud' = aud
       /\ hist'.cb # hist.cb => m.running]_vars

\* stop() has returned while Running with frames queued.
C11_StoppedWithFramesQueued ==
    /\ hist.last = "stop"
    /\ ~m.running
    /\ ~stream.active
    /\ Len(m.q.items) = m.BUFFERSIZE


\* An array and a frame as values: the tempo built for and the rotation.
ArrayValue(arr) == [t |-> arr.t, o |-> arr.o]
FrameValue(f) == [bar |-> ArrayValue(f.bar), beat |-> ArrayValue(f.beat)]

\* The state set_tempo leaves: tempo, waveform rotation, bar fraction,
\* accumulator and queue contents.
TempoState(s) ==
    [tempo |-> s.tempo,
     bar |-> ArrayValue(s.bar_array),
     beat |-> ArrayValue(s.beat_array),
     fraction |-> s.tempo_start_bar_fraction,
     acc |-> s.accumulated_drift_error,
     queue |-> [i \in 1..Len(s.q.items) |-> FrameValue(s.q.items[i])]]

\* This step is a set_tempo(v) that returns right after a set_tempo(v) has.
SetTempoRepeated ==
    /\ hist.last = "set_tempo"
    /\ hist'.cmds = hist.cmds + 1
    /\ hist'.last = "set_tempo"
    /\ m'.tempo = m.tempo

\* C12 as stated: set_tempo(v) called twice in succession leaves the state
\* of one call, Running or Stopped.
C12_SetTempoIdempotent ==
    [][SetTempoRepeated => TempoState(m') = TempoState(m)]_vars

\* C12, amended: the second set_tempo(v) leaves the tempo, the accumulator
\* and the length of the queue of the first; it leaves the whole state of
\* the first when Stopped, or when Running with no stream time elapsed since
\* the first returned; otherwise it moves the bar fraction on by the bars
\* elapsed at tempo v and rotates the waveform to it.
C12_SetTempoRepeatedRemaps ==
    [][SetTempoRepeated =>
          /\ m'.tempo = m.tempo
          /\ m'.accumulated_drift_error = m.accumulated_drift_error
          /\ Len(m'.q.items) = Len(m.q.items)
          /\ (~m.running \/ hist'.map.elapsed = 0) =>
                 TempoState(m') = TempoState(m)
          /\ m.running =>
                 m'.tempo_start_bar_fraction =
                     (m.tempo_start_bar_fraction
                        + ((hist'.map.elapsed * m.tempo) % FracDen)) % FracDen]_vars

\* set_tempo(v) has been repeated while Running after stream time elapsed.
C12_RepeatedLater ==
    /\ hist.last = "set_tempo"
    /\ hist.repeat
    /\ m.running
    /\ hist.map.elapsed > 0
    /\ hist.map.fraction # m.tempo_start_bar_fraction


\* C13: set_tempo stores a tempo clamped to the slider's range, so that after
\* any sequence of set_tempo and adjust_tempo calls the tempo lies in
\* SliderMin..SliderMax.
C13_TempoInSliderRange == m.tempo \in SliderMin..SliderMax


\* ------------------------------------------------------------ array construction
\* generate_bar_and_beat_array statement by statement, on the lengths of the
\* arrays it concatenates and the labels it writes, for tempos at the fast
\* end of the slider, 1..BEATS_PER_BAR beats in a bar and clicks hi and lo of
\* lengths that need not be equal.
BuildTempos == {SliderMax - 1, SliderMax}
BuildClicks == {ClickLength - 1, ClickLength}

\* A label that counts beats from zero.
BeatLabelFromZero(i, samples_per_beat) == i \div samples_per_beat

\* Line 149: 1 + divmod(i, self.samples_per_beat)[0].
BeatLabel(i, samples_per_beat) == 1 + (i \div samples_per_beat)

\* Before line 138: the tempo, beats_per_bar and the clicks' lengths; then
\* the lengths of zeros, accent_beat, non_accent_beat and bar_array, the
\* length of beat_array so far, the index and label written last, and the
\* number of times each label has been written.
InitBuild ==
    /\ \E T \in BuildTempos : \E B \in 1..BEATS_PER_BAR :
       \E hi \in BuildClicks : \E lo \in BuildClicks :
          m = [pc |-> "lengths", tempo |-> T, beats_per_bar |-> B,
               hi |-> hi, lo |-> lo,
               samples_per_beat |-> 0, samples_per_bar |-> 0,
               zeros |-> 0, accent_beat |-> 0, non_accent_beat |-> 0,
               bar_array |-> 0, beat_array |-> 0,
               i |-> -1, label |-> 0,
               count |-> [k \in 0..B |-> 0]]
    /\ stream = [active |-> FALSE]
    /\ clock = 0
    /\ ctl = CtlIdle
    /\ aud = AudWait
    /\ hist = Hist0
    /\ lim = [cmds |-> 0, cb |-> 0, clock |-> 0]

\* Lines 138-140.
BuildLengths ==
    /\ m.pc = "lengths"
    /\ m' = [m EXCEPT !.pc = "beats",
                      !.samples_per_beat = SamplesPerBeat(m.tempo),
                      !.samples_per_bar = SamplesPerBeat(m.tempo) * m.beats_per_bar,
                      !.zeros = SamplesPerBeat(m.tempo) - m.hi]
    /\ UNCHANGED <<stream, clock, ctl, aud, hist, lim>>

\* Lines 143-144: the two concatenations.
BuildBeats ==
    /\ m.pc = "beats"
    /\ m' = [m EXCEPT !.pc = "bar",
                      !.accent_beat = m.hi + m.zeros,
                      !.non_accent_beat = m.lo + m.zeros]
    /\ UNCHANGED <<stream, clock, ctl, aud, hist, lim>>

\* Line 147: the accent beat followed by beats_per_bar - 1 other beats.
BuildBar ==
    /\ m.pc = "bar"
    /\ m' = [m EXCEPT !.pc = "label",
                      !.bar_array = m.accent_beat
                                      + (m.beats_per_bar - 1) * m.non_accent_beat]
    /\ UNCHANGED <<stream, clock, ctl, aud, hist, lim>>

\* Line 149: one element of the list, for i in range(self.samples_per_bar).
BuildLabel ==
    /\ m.pc = "label"
    /\ m.beat_array < m.samples_per_bar
    /\ LET i == m.beat_array
           label == BeatLabel(i, m.samples_per_beat)
       IN  m' = [m EXCEPT !.i = i,
                          !.label = label,
                          !.beat_array = @ + 1,
                          !.count = IF label \in DOMAIN @
                                    THEN [@ EXCEPT ![label] = @ + 1] ELSE @]
    /\ UNCHANGED <<stream, clock, ctl, aud, hist, lim>>

\* Line 149: the list is complete.
BuildDone ==
    /\ m.pc = "label"
    /\ m.beat_array = m.samples_per_bar
    /\ m' = [m EXCEPT !.pc = "done"]
    /\ UNCHANGED <<stream, clock, ctl, aud, hist, lim>>

NextBuild ==
    \/ BuildLengths
    \/ BuildBeats
    \/ BuildBar
    \/ BuildLabel
    \/ BuildDone

SpecBuild == InitBuild /\ [][NextBuild]_vars

\* The labels written so far are those of the claim: index i has label
\* 1 + floor(i / samples_per_beat), and at the end each label 1..B has been
\* written floor(fs*60/T) times in an array of B * floor(fs*60/T) labels.
LabelsAsClaimed ==
    /\ m.i >= 0 => m.label = 1 + (m.i \div ((FS * 60) \div m.tempo))
    /\ m.pc = "done" =>
          /\ m.beat_array = m.beats_per_bar * ((FS * 60) \div m.tempo)
          /\ \A k \in 1..m.beats_per_bar : m.count[k] = (FS * 60) \div m.tempo
          /\ m.count[0] = 0

C16_EmptyQueueAbortsEpoch ==
    [][/\ (hist'.cb = hist.cb + 1 /\ hist'.last = "abort_empty") =>
              /\ m.q.items = <<>>
              /\ m' = m
              /\ aud' = aud
              /\ ~stream'.active
              /\ hist'.delivered = hist.delivered
       /\ hist'.delivered # hist.delivered => stream.active /\ aud.pc = "a_out"
       /\ (aud.pc = "wait" /\ aud'.pc # "wait") => stream.active]_vars

\* A callback has just found the queue empty and ended the epoch.
C16_AbortedOnEmptyQueue ==
    /\ hist.last = "abort_empty"
    /\ m.q.items = <<>>
    /\ m.running
    /\ ~stream.active
    /\ aud.pc = "wait"


\* C17: a set_tempo whose tempo gives a beat shorter than the click is
\* rejected with an error and changes nothing: the tempo, samples_per_beat,
\* samples_per_bar, the waveform, the accumulator and the queue keep their
\* values, and the tempo the sequencer computes with is never such a tempo.
C17_InvalidTempoRejected ==
    [][/\ (hist'.nSet = hist.nSet + 1 /\ SamplesPerBeat(hist'.arg) < m.click) =>
              /\ hist'.raised # "none"
              /\ TempoState(m') = TempoState(m)
              /\ m'.samples_per_beat = m.samples_per_beat
              /\ m'.samples_per_bar = m.samples_per_bar
       /\ SamplesPerBeat(m'.tempo) >= m'.click]_vars


\* A thread is between its store to bar_array and its store to beat_array:
\* inside generate_bar_and_beat_array (lines 147-149) or apply_shift (lines
\* 176-177), called by set_tempo, start or a generator.
BetweenStores ==
    \/ ctl.pc \in {"gen_beat", "shift_rl", "shift_wl"}
    \/ ctl.pc = "fill_next" /\ ctl.g.pc \in {"rl", "wl"}
    \/ aud.pc = "a_next" /\ aud.g.pc \in {"rl", "wl"}

\* C18: in every reachable state, also while set_tempo rebuilds and rotates
\* concurrently with a callback, the bar and beat arrays have the same
\* length samples_per_bar and the same rotation: where no thread is between
\* its two stores, the two arrays are of one tempo and one offset.
C18_ArraysRotateTogether ==
    ~BetweenStores =>
        /\ ArrayValue(m.bar_array) = ArrayValue(m.beat_array)
        /\ SamplesPerBar(m.bar_array.t) = m.samples_per_bar


\* A next() at the tempo of the cadence example that corrected.
CadenceCorrection ==
    /\ m.tempo = 145
    /\ m'.tempo = 145
    /\ hist'.corrections = hist.corrections + 1

\* C19 as stated: at tempo 145 (fs 16000, BLOCKSIZE 256) a fresh sequencer
\* corrects first on the 19th next(), and then roughly every 19 frames.
C19_CorrectionEvery19Frames ==
    [][CadenceCorrection =>
          IF hist.corrections = 0 THEN hist'.frames = 19
          ELSE hist'.frames - hist.correctedAt \in 18..20]_vars

\* C19, amended: at tempo 145 a fresh sequencer corrects first on the 20th
\* next() (the first next() adds no drift, and 19 additions of 0.02667 are
\* the first to reach 0.5), and then every 37 or 38 frames, because each
\* correction takes a whole sample off the accumulator.
C19_CorrectionCadence ==
    [][(m.tempo = 145 /\ m'.tempo = 145) =>
          /\ CadenceCorrection =>
                IF hist.corrections = 0 THEN hist'.frames = 20
                ELSE hist'.frames - hist.correctedAt \in {37, 38}
          /\ hist'.frames >= 20 => hist'.corrections >= 1
          /\ hist'.corrections >= 1 => hist'.frames - hist'.correctedAt < 38]_vars

\* The sequencer at tempo 145 has corrected a second time, on its 58th frame.
C19_SecondCorrection ==
    /\ m.tempo = 145
    /\ hist.corrections = 2
    /\ hist.correctedAt = 58
    /\ hist.frames = 58


FramesHeld ==
    {m.q.items[i] : i \in 1..Len(m.q.items)}
        \cup {ctl.g.out, aud.g.out, aud.bar_data}
        \cup {hist.delivered[i].f : i \in 1..Len(hist.delivered)}

C22_RunningIffStreamActive ==
    ctl.pc = "idle" => (m.running <=> stream.active)

====
